---- MODULE Spec2Model ----
(***************************************************************************)
(* A model of the Copernicus backend: the AOI model and its validator      *)
(* (app/models.py), the token cache (app/services/token.py), the catalog   *)
(* client (app/services/catalog.py), the render client                     *)
(* (app/services/process.py), the image store (app/services/storage.py)    *)
(* and the HTTP surface with its batch endpoints (app/main.py).            *)
(***************************************************************************)
EXTENDS Integers, Sequences, FiniteSets, TLC

VARIABLES
    aoiIn,          \* the raw AOI record handed to AOI(**x)
    aoiOut,         \* what construction gave: pending, an AOI, or an error
    selIn,          \* the JSON body of a successful catalog response
    selOut,         \* what find_latest_s2_scene returns for it
    retryI,         \* _post_with_retry: the loop variable i
    retryPosts,     \* the statuses of the responses to its POSTs, in order
    retryOut,       \* "running", "returned" or "raised"
    now,            \* time.time(), in seconds
    ticks,          \* how often the clock has advanced
    token_cache,    \* token.py: _token_cache
    tokenRequests,  \* POSTs made to the token endpoint so far
    issued,         \* tokens the identity provider has issued so far
    grant,          \* the call and response the cached token came from
    tokPc,          \* the sequential caller of get_access_token
    tokNow,         \* its local `now`
    tokReq0,        \* tokenRequests when its call began
    callLog,        \* the completed calls of get_access_token, in order
    endpoint,       \* the route of the HTTP request being served
    reqAoi,         \* its aoi_id path parameter (single-AOI routes)
    reqDt,          \* its datetime_utc query parameter (fc, fc.png)
    nAois,          \* number of AOIs in data/aois.json
    concurrency,    \* its concurrency query parameter (batch routes)
    sem,            \* value of the asyncio.Semaphore
    task,           \* per AOI: the coroutine's position and locals
    results,        \* the list asyncio.gather fills
    response,       \* the HTTP response, once sent
    files,          \* the image store: path -> bytes
    renderLog,      \* AOIs a render request was POSTed for
    overtaken,      \* some coroutine has finished before one of a lower index
    ops,            \* render-and-save operations of concurrent requests
    callers,        \* concurrent callers of get_access_token
    minted          \* the identity provider's record of the tokens it issued

aoiVars == <<aoiIn, aoiOut>>
selVars == <<selIn, selOut>>
retryVars == <<retryI, retryPosts, retryOut>>
clockVars == <<now, ticks>>
cacheVars == <<token_cache, tokenRequests, issued, grant>>
tokVars == <<tokPc, tokNow, tokReq0, callLog>>
httpVars == <<endpoint, reqAoi, reqDt, nAois, concurrency, sem, task, results,
              response, files, renderLog, overtaken>>
storeVars == <<ops>>
callerVars == <<callers, minted>>
vars == <<aoiVars, selVars, retryVars, clockVars, cacheVars, tokVars, httpVars,
         storeVars, callerVars>>

\* ------------------------------------------------------------------ bounds
CoordMax == 1       \* coordinates range over 0..CoordMax
MaxRing == 2        \* points in a polygon ring
MaxWall == 3        \* wall-clock readings of a feature's datetime string
MaxFeatures == 3    \* features in one catalog response

\* ------------------------------------------------------------------ values
\* Python's None, and the values an Optional field holds, are tagged records.
NoneV == [is |-> "None"]

Min(S) == CHOOSE x \in S : \A y \in S : x <= y
Max(S) == CHOOSE x \in S : \A y \in S : x >= y
SeqRange(s) == {s[i] : i \in 1..Len(s)}
SeqsUpTo(S, n) == UNION {[1..k -> S] : k \in 0..n}

\* ------------------------------------------------------------------ AOI
\* models.py: AOI.ensure_bbox, the model validator run after field parsing.
ValidationError(msg) == [ok |-> FALSE, error |-> msg]

\* mutant: the envelope is taken over every ring of the polygon
ensure_bbox_AllRings(bbox, geometry) ==
    IF bbox.is = "None" /\ geometry.is = "dict"
    THEN IF geometry.type # "Polygon"
         THEN ValidationError("geometry.type must be 'Polygon'")
         ELSE LET rings == geometry.coordinates
                  pts == UNION {SeqRange(rings[k]) : k \in 1..Len(rings)}
              IN  IF pts = {}
                  THEN ValidationError("min() arg is an empty sequence")
                  ELSE [ok |-> TRUE,
                        bbox |-> <<Min({p[1] : p \in pts}), Min({p[2] : p \in pts}),
                                   Max({p[1] : p \in pts}), Max({p[2] : p \in pts})>>,
                        geometry |-> geometry]
    ELSE IF bbox.is = "None" \/ Len(bbox.v) # 4
    THEN ValidationError("AOI must have bbox (either directly or computed from geometry)")
    ELSE [ok |-> TRUE, bbox |-> bbox.v, geometry |-> geometry]

ensure_bbox(bbox, geometry) ==
    LET derive ==
            \* if (self.bbox is None) and self.geometry:
            IF bbox.is = "None" /\ geometry.is = "dict"
            THEN IF geometry.type # "Polygon"
                 THEN ValidationError("geometry.type must be 'Polygon'")
                 ELSE IF Len(geometry.coordinates) = 0
                 THEN ValidationError("IndexError")
                 ELSE LET coords == geometry.coordinates[1]
                          lons == {coords[i][1] : i \in 1..Len(coords)}
                          lats == {coords[i][2] : i \in 1..Len(coords)}
                      IN  IF Len(coords) = 0
                          THEN ValidationError("min() arg is an empty sequence")
                          ELSE [ok |-> TRUE,
                                bbox |-> [is |-> "list",
                                          v |-> <<Min(lons), Min(lats), Max(lons), Max(lats)>>]]
            ELSE [ok |-> TRUE, bbox |-> bbox]
    IN  IF ~derive.ok THEN derive
        \* if not self.bbox or len(self.bbox) != 4:
        ELSE IF derive.bbox.is = "None" \/ Len(derive.bbox.v) = 0 \/ Len(derive.bbox.v) # 4
        THEN ValidationError("AOI must have bbox (either directly or computed from geometry)")
        ELSE [ok |-> TRUE, bbox |-> derive.bbox.v, geometry |-> geometry]

Coords == 0..CoordMax
Points == Coords \X Coords
Rings == SeqsUpTo(Points, MaxRing)
GeometryTypes == {"Polygon", "Point", "MultiPolygon"}
\* a second (interior) ring, when present, is the single point outside 0..CoordMax
Hole == <<<<CoordMax + 1, CoordMax + 1>>>>
Geometries ==
    {NoneV, [is |-> "empty"]}
    \cup {[is |-> "dict", type |-> t, coordinates |-> <<>>] : t \in GeometryTypes}
    \cup {[is |-> "dict", type |-> t, coordinates |-> <<r>>] : t \in GeometryTypes, r \in Rings}
    \cup {[is |-> "dict", type |-> t, coordinates |-> <<r, Hole>>] : t \in GeometryTypes, r \in Rings}
Bboxes ==
    {NoneV}
    \cup {[is |-> "list", v |-> s] : s \in [1..4 -> Coords]}
    \cup {[is |-> "list", v |-> s] : s \in {<<>>, <<0, 0, 1>>, <<0, 0, 1, 1, 1>>}}

AoiInit ==
    /\ aoiIn \in [bbox : Bboxes, geometry : Geometries]
    /\ aoiOut = [ok |-> FALSE, error |-> "pending"]
AoiIdle ==
    /\ aoiIn = [bbox |-> NoneV, geometry |-> NoneV]
    /\ aoiOut = [ok |-> FALSE, error |-> "pending"]

\* AOI(**x): aoi_repo.load_aois constructs one AOI per record of the file.
Construct ==
    /\ aoiOut = [ok |-> FALSE, error |-> "pending"]
    /\ aoiOut' = ensure_bbox(aoiIn.bbox, aoiIn.geometry)
    /\ UNCHANGED <<aoiIn, selVars, retryVars, clockVars, cacheVars, tokVars, httpVars, storeVars, callerVars>>

\* ------------------------------------------------------------------ catalog: selection
\* A datetime string is modelled by its wall-clock reading and its UTC offset
\* ("Z" is offset 0); _parse_dt converts it to the UTC instant.
_parse_dt(dt_str) == dt_str.wall - dt_str.off
EpochStr == [is |-> "str", wall |-> 0, off |-> 0]    \* "1970-01-01T00:00:00Z"

\* (f.get("properties") or {}).get("datetime")
PropsDatetime(f) == IF f.props = "dict" THEN f.dt ELSE NoneV

\* mutant: the datetime strings are compared as written, not as instants
key_fn_AsWritten(f) ==
    LET d == PropsDatetime(f)
    IN  IF d.is = "str" THEN d.wall ELSE 0

\* key_fn: (f.get("properties") or {}).get("datetime") or "1970-01-01T00:00:00Z"
key_fn(f) ==
    LET d == PropsDatetime(f)
    IN  _parse_dt(IF d.is = "str" THEN d ELSE EpochStr)

\* Python's max(iterable, key=...): the running best is replaced only by a
\* strictly greater key.
RECURSIVE PyMaxFrom(_, _, _)
PyMaxFrom(s, i, best) ==
    IF i > Len(s) THEN best
    ELSE PyMaxFrom(s, i + 1, IF key_fn(s[i]) > key_fn(best) THEN s[i] ELSE best)
\* mutant: among equal keys the later element is kept
PyMax_LastWins(s) ==
    LET k == CHOOSE i \in 1..Len(s) :
                 /\ \A j \in 1..Len(s) : key_fn(s[j]) <= key_fn(s[i])
                 /\ \A j \in (i + 1)..Len(s) : key_fn(s[j]) < key_fn(s[i])
    IN  s[k]
PyMax(s) == PyMaxFrom(s, 2, s[1])

\* find_latest_s2_scene, after the response: data.get("features") or [] ...
SelectLatest(data) ==
    LET features == IF data.features.is = "list" THEN data.features.v ELSE <<>>
    IN  IF Len(features) = 0 THEN NoneV
        ELSE [is |-> "feature", f |-> PyMax(features)]

\* The search asks for [now - days, now] with days >= 1, so every datetime the
\* catalog returns lies after the epoch: instants are >= 1.
DtStrings == {[is |-> "str", wall |-> w, off |-> o] : w \in 2..MaxWall, o \in {0, 1}}
FeatureShapes ==
    {[props |-> "absent", dt |-> NoneV], [props |-> "null", dt |-> NoneV],
     [props |-> "dict", dt |-> NoneV], [props |-> "dict", dt |-> [is |-> "empty"]]}
    \cup {[props |-> "dict", dt |-> d] : d \in DtStrings}
\* the i-th feature of a response has id i and, in its properties, cloud cover 10 * i
WithIds(shapes) ==
    [i \in 1..Len(shapes) |->
        [id |-> i, props |-> shapes[i].props, dt |-> shapes[i].dt,
         cloud |-> IF shapes[i].props = "dict" THEN [is |-> "num", v |-> 10 * i] ELSE NoneV]]
FeatureLists == {WithIds(s) : s \in SeqsUpTo(FeatureShapes, MaxFeatures)}
CatalogBodies ==
    {[features |-> NoneV], [features |-> [is |-> "absent"]]}
    \cup {[features |-> [is |-> "list", v |-> fl]] : fl \in FeatureLists}

SelInit ==
    /\ selIn \in CatalogBodies
    /\ selOut = [is |-> "pending"]
SelIdle ==
    /\ selIn = [features |-> NoneV]
    /\ selOut = [is |-> "pending"]

Select ==
    /\ selOut = [is |-> "pending"]
    /\ selOut' = SelectLatest(selIn)
    /\ UNCHANGED <<selIn, aoiVars, retryVars, clockVars, cacheVars, tokVars, httpVars, storeVars, callerVars>>

\* ------------------------------------------------------------------ token cache
TokenMargin == 60          \* token.py: (expires_at - now) > 60
DefaultExpiresIn == 3600   \* token.py: payload.get("expires_in", 3600)

\* _token_cache as the module defines it; access_token None is written 0, and
\* the tokens the provider issues are 1, 2, ...
EmptyCache == [access_token |-> 0, expires_at |-> 0]

\* mutant: the 60-second margin is dropped
CacheFresh_NoMargin(cache, t) ==
    cache.access_token # 0 /\ (cache.expires_at - t) > 0

\* if _token_cache["access_token"] and (_token_cache["expires_at"] - now) > 60
CacheFresh(cache, t) ==
    cache.access_token # 0 /\ (cache.expires_at - t) > TokenMargin

\* float(payload.get("expires_in", 3600))
ExpiresIn(payload) ==
    IF payload.expires_in.is = "None" THEN DefaultExpiresIn ELSE payload.expires_in.v

\* mutant: expires_at is computed from the clock as it stands after the await
StoreToken_ClockAfterAwait(cache, t, payload) ==
    [access_token |-> payload.access_token, expires_at |-> now + ExpiresIn(payload)]

\* the two stores after a successful response; t is the `now` read on entry
StoreToken(cache, t, payload) ==
    [access_token |-> payload.access_token, expires_at |-> t + ExpiresIn(payload)]

\* what the identity provider may answer
TokenLifetimes == {NoneV, [is |-> "num", v |-> 30], [is |-> "num", v |-> 90]}
TokenFailStatuses == {401, 503}
TokenResponses ==
    {[kind |-> "ok", status |-> 200, expires_in |-> e] : e \in TokenLifetimes}
    \cup {[kind |-> "status", status |-> s, expires_in |-> NoneV] : s \in TokenFailStatuses}
    \cup {[kind |-> "timeout", status |-> 0, expires_in |-> NoneV]}
PayloadOf(r, serial) == [access_token |-> serial, expires_in |-> r.expires_in]
GrantOf(t, payload) == [at |-> t, expires_in |-> ExpiresIn(payload), token |-> payload.access_token]

ClockInit == now = 0 /\ ticks = 0
CacheInit ==
    /\ token_cache = EmptyCache
    /\ tokenRequests = 0
    /\ issued = 0
    /\ grant = [at |-> 0, expires_in |-> 0, token |-> 0]
TokInit ==
    /\ tokPc = "idle"
    /\ tokNow = 0
    /\ tokReq0 = 0
    /\ callLog = <<>>

\* Sequential callers of get_access_token: one call at a time, the clock
\* advancing between and during calls.
MaxCalls == 3
MaxTicks == 3
TokenDeltas == {10, 20, 3540}

\* One entry of callLog: when the call read the clock, how many token requests
\* it made, what it returned (ok, token) and the cache and grant it found.
CallRecord(start, requests, ok, token, before, grantBefore, after) ==
    [start |-> start, requests |-> requests, ok |-> ok, token |-> token,
     before |-> before, grantBefore |-> grantBefore, after |-> after]

\* get_access_token up to its await: read the clock, answer from the cache or
\* POST to the token endpoint.
TokCall ==
    /\ tokPc = "idle"
    /\ Len(callLog) < MaxCalls
    /\ tokNow' = now
    /\ tokReq0' = tokenRequests
    /\ IF CacheFresh(token_cache, now)
       THEN /\ callLog' = Append(callLog,
                    CallRecord(now, 0, TRUE, token_cache.access_token,
                               token_cache, grant, token_cache))
            /\ UNCHANGED <<tokPc, tokenRequests>>
       ELSE /\ tokPc' = "awaiting"
            /\ tokenRequests' = tokenRequests + 1
            /\ UNCHANGED callLog
    /\ UNCHANGED <<token_cache, issued, grant, clockVars, aoiVars, selVars, retryVars, httpVars, storeVars, callerVars>>

\* get_access_token from the response on: raise_for_status, then the stores.
TokRespond(r) ==
    /\ tokPc = "awaiting"
    /\ tokPc' = "idle"
    /\ IF r.kind = "ok"
       THEN /\ issued' = issued + 1
            /\ token_cache' = StoreToken(token_cache, tokNow, PayloadOf(r, issued + 1))
            /\ grant' = GrantOf(tokNow, PayloadOf(r, issued + 1))
            /\ callLog' = Append(callLog,
                    CallRecord(tokNow, tokenRequests - tokReq0, TRUE, token_cache'.access_token,
                               token_cache, grant, token_cache'))
       ELSE /\ callLog' = Append(callLog,
                    CallRecord(tokNow, tokenRequests - tokReq0, FALSE, 0,
                               token_cache, grant, token_cache))
            /\ UNCHANGED <<issued, token_cache, grant>>
    /\ UNCHANGED <<tokNow, tokReq0, tokenRequests, clockVars, aoiVars, selVars, retryVars, httpVars, storeVars, callerVars>>

TokTick(d) ==
    /\ ticks < MaxTicks
    /\ ticks' = ticks + 1
    /\ now' = now + d
    /\ UNCHANGED <<cacheVars, tokVars, aoiVars, selVars, retryVars, httpVars, storeVars, callerVars>>

TokNext ==
    \/ TokCall
    \/ \E r \in TokenResponses : TokRespond(r)
    \/ \E d \in TokenDeltas : TokTick(d)

\* ------------------------------------------------------------------ catalog: retry
Tries == 4                       \* catalog.py: tries=4
Transient == {502, 503, 504}     \* catalog.py: r.status_code in (502, 503, 504)
Is2xx(s) == s \in 200..299       \* httpx: raise_for_status raises unless is_success

\* mutant: every 5xx is retried
RetryStep_Any5xx(i, status) ==
    IF status >= 500 /\ i < Tries - 1 THEN "retry"
    ELSE IF ~Is2xx(status) THEN "raise"
    ELSE "return"

\* _post_with_retry, one turn of the loop: i is the loop variable, status the
\* response's status; "retry" sleeps and continues, "raise" is
\* raise_for_status raising HTTPStatusError, "return" returns the response.
RetryStep(i, status) ==
    IF status \in Transient /\ i < Tries - 1 THEN "retry"
    ELSE IF ~Is2xx(status) THEN "raise"
    ELSE "return"

\* One call of _post_with_retry, the catalog answering each POST with any status.
RetryStatuses == {200, 204, 400, 404, 500, 502, 503, 504}
RetryInit ==
    /\ retryI = 0
    /\ retryPosts = <<>>
    /\ retryOut = "running"
RetryIdle == RetryInit

\* r = await client.post(...) and the rest of the loop body; when the loop
\* runs out, the two lines after it
RetryPost(s) ==
    /\ retryOut = "running"
    /\ retryI < Tries
    /\ retryPosts' = Append(retryPosts, s)
    /\ CASE RetryStep(retryI, s) = "retry" ->
              /\ retryI' = retryI + 1
              /\ retryOut' = IF retryI + 1 < Tries THEN "running"
                             ELSE IF Is2xx(s) THEN "returned" ELSE "raised"
         [] RetryStep(retryI, s) = "raise" -> retryOut' = "raised" /\ UNCHANGED retryI
         [] RetryStep(retryI, s) = "return" -> retryOut' = "returned" /\ UNCHANGED retryI
    /\ UNCHANGED <<aoiVars, selVars, clockVars, cacheVars, tokVars, httpVars, storeVars, callerVars>>

\* ------------------------------------------------------------------ upstream
\* the text of an upstream error response: which status it came with and how
\* long it is; text[:n] keeps its first n characters
BodyLen(s) ==
    CASE s = 400 -> 0 [] s = 401 -> 30 [] s = 404 -> 400 [] s = 500 -> 2000
      [] s = 502 -> 401 [] s = 503 -> 1200 [] s = 504 -> 1201 [] OTHER -> 10
Body(s) == [of |-> s, len |-> BodyLen(s)]
Truncate(text, n) == [of |-> text.of, len |-> IF text.len > n THEN n ELSE text.len]
DetailChars == 1200    \* main.py: e.response.text[:1200]
EntryChars == 400      \* main.py: e.response.text[:400]

HTTPStatusError(s) == [type |-> "HTTPStatusError", status |-> s, msg |-> "status"]
OtherError(msg) == [type |-> "Exception", status |-> 0, msg |-> msg]

\* ------------------------------------------------------------------ image store
DayLen == 2    \* instants per UTC calendar day
\* parse_datetime_utc: the UTC instant of an ISO string
parse_datetime_utc(dt_str) == dt_str.wall - dt_str.off
\* to_z: the instant written with a Z suffix
to_z(instant) == [is |-> "str", wall |-> instant, off |-> 0]
\* dt.date().isoformat()
DateOf(instant) == instant \div DayLen
\* storage.py: save_png's out_path, {output_dir}/{aoi_id}/{date}_false_color.png
OutPath(aoi_id, date_str) ==
    [output_dir |-> "output", aoi_id |-> aoi_id, filename |-> [date |-> date_str, suffix |-> "_false_color.png"]]
\* out_path.write_bytes(png_bytes)
WriteBytes(store, path, png) ==
    [p \in DOMAIN store \cup {path} |-> IF p = path THEN png ELSE store[p]]
UrlOf(file_path) == [slash |-> "/", path |-> file_path]

\* ------------------------------------------------------------------ HTTP surface
MaxAois == 3
MaxConcurrency == 2
MaxHttpTicks == 1
HttpDeltas == {30}

SingleEndpoints == {"latest-scene", "fc.png", "fc", "latest-fc"}
BatchEndpoints == {"latest-scenes", "latest-fc-all"}
SearchEndpoints == {"latest-scene", "latest-fc", "latest-scenes", "latest-fc-all"}
IsBatch == endpoint \in BatchEndpoints

\* what the upstream services may answer in one request
CatalogStatuses == {200, 404, 503}
RenderStatuses == {200, 500}
HttpTokenResponses ==
    {r \in TokenResponses :
        /\ r.status \in {0, 200, 401}
        /\ r.kind = "ok" => r.expires_in = [is |-> "num", v |-> 90]}
ShapeNoDt == [props |-> "dict", dt |-> NoneV]
ShapeNullProps == [props |-> "null", dt |-> NoneV]
ShapeAt(w, o) == [props |-> "dict", dt |-> [is |-> "str", wall |-> w, off |-> o]]
HttpBodies ==
    {[features |-> [is |-> "absent"]],
     [features |-> [is |-> "list", v |-> <<>>]],
     [features |-> [is |-> "list", v |-> WithIds(<<ShapeNoDt>>)]],
     [features |-> [is |-> "list", v |-> WithIds(<<ShapeNullProps>>)]],
     [features |-> [is |-> "list", v |-> WithIds(<<ShapeAt(2, 0), ShapeAt(3, 0), ShapeNoDt>>)]]}
NoBody == [features |-> [is |-> "unset"]]

\* a coroutine serving one AOI: its position, the stage it is in, the retry
\* loop's i, the `now` get_access_token read, the catalog body it got, the
\* datetime string it renders for, the exception it ended in (if any) and
\* what the route made of its end
NoFault == [type |-> "none", status |-> 0, where |-> "none"]
NewTask ==
    [pc |-> "wait", stage |-> "none", attempt |-> 0, tnow |-> 0,
     body |-> NoBody, dt |-> NoneV, fault |-> NoFault, out |-> NoneV]
\* the coroutine returned `out`; its locals are gone, the catalog body it had
\* got is remembered
Done(tk, out) == [NewTask EXCEPT !.pc = "done", !.body = tk.body, !.out = out]

\* responses of the single-AOI routes
Ok200(body) == [status |-> 200, body |-> body]
HTTPException(status_code, detail) == [status |-> status_code, detail |-> detail]
\* an exception no handler catches: the server's 500
Unhandled == [status |-> 500, detail |-> [text |-> "Internal Server Error"]]
UpstreamDetail(where, s) ==
    [where |-> where, upstream_status |-> s, upstream_body |-> Truncate(Body(s), DetailChars)]

\* what each route's except clauses make of an exception raised in its try
\* block `where` ("none": outside every try block)
OnRaise(ep, a, where, exc) ==
    CASE ep = "latest-scenes" ->
            IF exc.type = "HTTPStatusError"
            THEN [aoi_id |-> a, name |-> a,
                  error |-> [where |-> "catalog.search", status |-> exc.status,
                             body |-> Truncate(Body(exc.status), EntryChars)]]
            ELSE [aoi_id |-> a, name |-> a, error |-> [message |-> exc.msg]]
      [] ep = "latest-fc-all" ->
            IF exc.type = "HTTPStatusError"
            THEN [aoi_id |-> a, name |-> a,
                  error |-> [status |-> exc.status,
                             body |-> Truncate(Body(exc.status), EntryChars)]]
            ELSE [aoi_id |-> a, name |-> a, error |-> [message |-> exc.msg]]
      [] ep = "latest-scene" ->
            IF where = "none" THEN Unhandled
            ELSE IF exc.type = "HTTPStatusError"
            THEN HTTPException(exc.status, UpstreamDetail("catalog.search", exc.status))
            ELSE HTTPException(502, [where |-> "catalog.search", error |-> exc.msg])
      [] ep = "fc.png" ->
            IF exc.type = "HTTPStatusError"
            THEN HTTPException(exc.status, UpstreamDetail("process", exc.status))
            ELSE Unhandled
      [] ep = "fc" -> Unhandled
      [] ep = "latest-fc" ->
            IF where # "none" /\ exc.type = "HTTPStatusError"
            THEN HTTPException(exc.status, UpstreamDetail(where, exc.status))
            ELSE Unhandled

\* mutant: the exception is swallowed and the entry says "no scene"
Raise_Swallowed(ep, a, tk, where, exc) ==
    Done(tk, [aoi_id |-> a, name |-> a, scene |-> NoneV])

\* the coroutine ends in exception exc, raised in try block `where`
Raise(ep, a, tk, where, exc) ==
    [NewTask EXCEPT !.pc = "done", !.body = tk.body,
                    !.fault = [type |-> exc.type, status |-> exc.status, where |-> where],
                    !.out = OnRaise(ep, a, where, exc)]

\* get_access_token as called on entering a stage: answer from the cache and
\* go on to the stage's POST, or POST to the token endpoint first
PostPc(stage) == IF stage = "catalog.search" THEN "catalog" ELSE "render"
BeginStage(tk, stage) ==
    IF CacheFresh(token_cache, now)
    THEN [tk EXCEPT !.pc = PostPc(stage), !.stage = stage, !.attempt = 0]
    ELSE [tk EXCEPT !.pc = "token", !.stage = stage, !.attempt = 0, !.tnow = now]

\* the handler from its first line to its first await
StartFlow(ep, tk) ==
    IF ep \in SearchEndpoints THEN BeginStage(tk, "catalog.search")
    ELSE IF reqDt.is # "str"
    THEN Done(tk, HTTPException(422, [text |-> "Invalid datetime_utc"]))
    ELSE BeginStage([tk EXCEPT !.dt = reqDt], "process")

\* mutant: "no scene" is reported as an error
NullImage_AsError(a) == [aoi_id |-> a, error |-> [message |-> "no scene"]]

SceneFields(f) ==
    [datetime |-> PropsDatetime(f), cloud_cover |-> f.cloud, scene_id |-> f.id]
NullImage(a) == [aoi_id |-> a, datetime |-> NoneV, file |-> NoneV, url |-> NoneV]

\* the handler from find_latest_s2_scene's return to its next await or its end
AfterSearch(ep, a, tk, feature) ==
    CASE ep = "latest-scene" ->
            IF feature.is = "None" THEN Done(tk, Ok200([aoi_id |-> a, scene |-> NoneV]))
            ELSE IF feature.f.props = "null"
            THEN Raise(ep, a, tk, "none", OtherError("AttributeError"))
            ELSE Done(tk, Ok200([aoi_id |-> a] @@ SceneFields(feature.f)))
      [] ep = "latest-scenes" ->
            IF feature.is = "None" THEN Done(tk, [aoi_id |-> a, name |-> a, scene |-> NoneV])
            ELSE IF feature.f.props = "null"
            THEN Raise(ep, a, tk, "catalog.search", OtherError("AttributeError"))
            ELSE Done(tk, [aoi_id |-> a, name |-> a,
                           scene |-> [is |-> "scene"] @@ SceneFields(feature.f)])
      [] ep = "latest-fc" ->
            IF feature.is = "None" THEN Done(tk, Ok200(NullImage(a)))
            ELSE IF feature.f.props = "null"
            THEN Raise(ep, a, tk, "none", OtherError("AttributeError"))
            ELSE IF PropsDatetime(feature.f).is # "str" THEN Done(tk, Ok200(NullImage(a)))
            ELSE BeginStage([tk EXCEPT !.dt = PropsDatetime(feature.f)], "process")
      [] ep = "latest-fc-all" ->
            IF feature.is = "None" THEN Done(tk, [name |-> a] @@ NullImage(a))
            ELSE IF PropsDatetime(feature.f).is # "str"
            THEN Done(tk, [aoi_id |-> a, name |-> a,
                           error |-> [message |-> "scene missing datetime"]])
            ELSE BeginStage([tk EXCEPT !.dt = PropsDatetime(feature.f)], "process")

\* r.content of a 2xx render response: the image rendered for coroutine i's
\* bbox and time window
PngFor(i, tk) == [bbox_of |-> i, around |-> parse_datetime_utc(tk.dt)]

SavesImage(ep) == ep \in {"fc", "latest-fc", "latest-fc-all"}
\* mutant: the date is read off the datetime string as written
SavedPath_AsWritten(a, tk) == OutPath(a, tk.dt.wall \div DayLen)

SavedPath(a, tk) == OutPath(a, DateOf(parse_datetime_utc(tk.dt)))

\* the handler from fetch_false_color_png's return to its end
AfterRender(ep, a, tk, png) ==
    CASE ep = "fc.png" -> Done(tk, Ok200([content |-> png, media_type |-> "image/png"]))
      [] ep = "fc" ->
            Done(tk, Ok200([aoi_id |-> a, datetime |-> to_z(parse_datetime_utc(tk.dt)),
                            file |-> SavedPath(a, tk), url |-> UrlOf(SavedPath(a, tk))]))
      [] ep = "latest-fc" ->
            Done(tk, Ok200([aoi_id |-> a, datetime |-> tk.dt,
                            file |-> SavedPath(a, tk), url |-> UrlOf(SavedPath(a, tk))]))
      [] ep = "latest-fc-all" ->
            Done(tk, [aoi_id |-> a, name |-> a, datetime |-> tk.dt,
                      file |-> SavedPath(a, tk), url |-> UrlOf(SavedPath(a, tk))])

\* mutant: the semaphore lets one coroutine too many in
SemLocked_OffByOne(value) == value < 0

\* asyncio.Semaphore
SemLocked(value) == value <= 0
SemAcquire(value) == value - 1
SemRelease(value) == value + 1

\* mutant: results are appended in completion order
GatherPut_Append(res, i, out) ==
    LET free == {k \in 1..Len(res) : res[k].is = "pending"}
    IN  [res EXCEPT ![CHOOSE k \in free : \A j \in free : k <= j] = out]

\* asyncio.gather: the i-th awaitable's result is the i-th element of the list
GatherPut(res, i, out) == [res EXCEPT ![i] = out]
Pending == [is |-> "pending"]

TaskIds == DOMAIN task
WhereOf(tk) == tk.stage

HttpInit ==
    /\ endpoint \in SingleEndpoints \cup BatchEndpoints
    /\ nAois \in 0..MaxAois
    /\ IF endpoint \in BatchEndpoints
       THEN /\ reqAoi = 0
            /\ concurrency \in 1..MaxConcurrency
            /\ task = [i \in 1..nAois |-> NewTask]
       ELSE /\ reqAoi \in 0..MaxAois
            /\ nAois = MaxAois
            /\ concurrency = 0
            /\ task = [i \in {reqAoi} \ {0} |-> NewTask]
    /\ IF endpoint \in {"fc", "fc.png"}
       THEN reqDt \in {[is |-> "invalid"], ShapeAt(2, 0).dt, ShapeAt(3, 1).dt}
       ELSE reqDt = NoneV
    /\ sem = concurrency
    /\ results = [i \in 1..(IF endpoint \in BatchEndpoints THEN nAois ELSE 0) |-> Pending]
    /\ response = Pending
    /\ files = [p \in {} |-> 0]
    /\ renderLog = {}
    /\ overtaken = FALSE

\* what a step of coroutine i that leaves it at nt does to the shared state
Apply(i, nt, acquired) ==
    /\ task' = [task EXCEPT ![i] = nt]
    /\ tokenRequests' = tokenRequests + (IF nt.pc = "token" /\ task[i].pc # "token" THEN 1 ELSE 0)
    /\ renderLog' = IF nt.pc = "render" /\ task[i].pc # "render"
                    THEN renderLog \cup {i} ELSE renderLog
    /\ overtaken' = (overtaken \/ (nt.pc = "done" /\ \E j \in TaskIds : j < i /\ task[j].pc # "done"))
    /\ IF nt.pc = "done" /\ IsBatch
       THEN /\ sem' = SemRelease(IF acquired THEN SemAcquire(sem) ELSE sem)
            /\ results' = GatherPut(results, i, nt.out)
            /\ UNCHANGED response
       ELSE /\ sem' = (IF acquired THEN SemAcquire(sem) ELSE sem)
            /\ response' = (IF nt.pc = "done" THEN nt.out ELSE response)
            /\ UNCHANGED results

\* get_aoi found no AOI of that id
NotFound ==
    /\ endpoint \in SingleEndpoints
    /\ reqAoi = 0
    /\ response = Pending
    /\ response' = HTTPException(404, [text |-> "AOI not found"])
    /\ UNCHANGED <<endpoint, reqAoi, reqDt, nAois, concurrency, sem, task, results, files,
                   renderLog, overtaken, clockVars, cacheVars, tokVars, aoiVars, selVars, retryVars, storeVars, callerVars>>

\* coroutine i runs from its start (in a batch: from `async with sem`, once
\* the semaphore is free) to its first await
Start(i) ==
    /\ task[i].pc = "wait"
    /\ IsBatch => ~SemLocked(sem)
    /\ Apply(i, StartFlow(endpoint, task[i]), IsBatch)
    /\ UNCHANGED <<endpoint, reqAoi, reqDt, nAois, concurrency, files,
                   token_cache, issued, grant, clockVars, tokVars, aoiVars, selVars, retryVars, storeVars, callerVars>>

\* the token endpoint answers coroutine i
TokenResp(i, r) ==
    /\ task[i].pc = "token"
    /\ CASE r.kind = "ok" ->
              /\ issued' = issued + 1
              /\ token_cache' = StoreToken(token_cache, task[i].tnow, PayloadOf(r, issued + 1))
              /\ grant' = GrantOf(task[i].tnow, PayloadOf(r, issued + 1))
              /\ Apply(i, [task[i] EXCEPT !.pc = PostPc(task[i].stage)], FALSE)
         [] r.kind = "status" ->
              /\ Apply(i, Raise(endpoint, i, task[i], WhereOf(task[i]), HTTPStatusError(r.status)), FALSE)
              /\ UNCHANGED <<issued, token_cache, grant>>
         [] r.kind = "timeout" ->
              /\ Apply(i, Raise(endpoint, i, task[i], WhereOf(task[i]), OtherError("timeout")), FALSE)
              /\ UNCHANGED <<issued, token_cache, grant>>
    /\ UNCHANGED <<endpoint, reqAoi, reqDt, nAois, concurrency, files,
                   clockVars, tokVars, aoiVars, selVars, retryVars, storeVars, callerVars>>

\* the catalog answers coroutine i's POST with status s (and, when 2xx, body)
CatalogResp(i, s, body) ==
    /\ task[i].pc = "catalog"
    /\ body = NoBody <=> ~Is2xx(s)
    /\ CASE RetryStep(task[i].attempt, s) = "retry" ->
              Apply(i, [task[i] EXCEPT !.pc = "sleep", !.attempt = @ + 1], FALSE)
         [] RetryStep(task[i].attempt, s) = "raise" ->
              Apply(i, Raise(endpoint, i, task[i], WhereOf(task[i]), HTTPStatusError(s)), FALSE)
         [] RetryStep(task[i].attempt, s) = "return" ->
              Apply(i, AfterSearch(endpoint, i, [task[i] EXCEPT !.body = body],
                                   SelectLatest(body)), FALSE)
    /\ UNCHANGED <<endpoint, reqAoi, reqDt, nAois, concurrency, files,
                   token_cache, issued, grant, clockVars, tokVars, aoiVars, selVars, retryVars, storeVars, callerVars>>

\* coroutine i's catalog POST times out
CatalogTimeout(i) ==
    /\ task[i].pc = "catalog"
    /\ Apply(i, Raise(endpoint, i, task[i], WhereOf(task[i]), OtherError("timeout")), FALSE)
    /\ UNCHANGED <<endpoint, reqAoi, reqDt, nAois, concurrency, files,
                   token_cache, issued, grant, clockVars, tokVars, aoiVars, selVars, retryVars, storeVars, callerVars>>

\* asyncio.sleep(1.5 * (i + 1)) is over: the loop POSTs again
Wake(i) ==
    /\ task[i].pc = "sleep"
    /\ Apply(i, [task[i] EXCEPT !.pc = "catalog"], FALSE)
    /\ UNCHANGED <<endpoint, reqAoi, reqDt, nAois, concurrency, files,
                   token_cache, issued, grant, clockVars, tokVars, aoiVars, selVars, retryVars, storeVars, callerVars>>

\* the render provider answers coroutine i's POST with status s
RenderResp(i, s) ==
    /\ task[i].pc = "render"
    /\ IF Is2xx(s)
       THEN /\ files' = IF SavesImage(endpoint)
                        THEN WriteBytes(files, SavedPath(i, task[i]), PngFor(i, task[i]))
                        ELSE files
            /\ Apply(i, AfterRender(endpoint, i, task[i], PngFor(i, task[i])), FALSE)
       ELSE /\ Apply(i, Raise(endpoint, i, task[i], WhereOf(task[i]), HTTPStatusError(s)), FALSE)
            /\ UNCHANGED files
    /\ UNCHANGED <<endpoint, reqAoi, reqDt, nAois, concurrency,
                   token_cache, issued, grant, clockVars, tokVars, aoiVars, selVars, retryVars, storeVars, callerVars>>

\* coroutine i's render POST times out
RenderTimeout(i) ==
    /\ task[i].pc = "render"
    /\ Apply(i, Raise(endpoint, i, task[i], WhereOf(task[i]), OtherError("timeout")), FALSE)
    /\ UNCHANGED <<endpoint, reqAoi, reqDt, nAois, concurrency, files,
                   token_cache, issued, grant, clockVars, tokVars, aoiVars, selVars, retryVars, storeVars, callerVars>>

\* asyncio.gather has every result: the batch handler returns
BatchReturn ==
    /\ IsBatch
    /\ response = Pending
    /\ \A i \in TaskIds : task[i].pc = "done"
    /\ response' = Ok200([count |-> Len(results), results |-> results])
    /\ UNCHANGED <<endpoint, reqAoi, reqDt, nAois, concurrency, sem, task, results, files,
                   renderLog, overtaken, clockVars, cacheVars, tokVars, aoiVars, selVars, retryVars, storeVars, callerVars>>

\* time passes while the request is served
HttpTick ==
    /\ ticks < MaxHttpTicks
    /\ response = Pending
    /\ ticks' = ticks + 1
    /\ \E d \in HttpDeltas : now' = now + d
    /\ UNCHANGED <<httpVars, cacheVars, tokVars, aoiVars, selVars, retryVars, storeVars, callerVars>>

HttpNext ==
    \/ NotFound
    \/ \E i \in TaskIds : Start(i)
    \/ \E i \in TaskIds, r \in HttpTokenResponses : TokenResp(i, r)
    \/ \E i \in TaskIds, s \in CatalogStatuses, body \in HttpBodies \cup {NoBody} :
            CatalogResp(i, s, body)
    \/ \E i \in TaskIds : CatalogTimeout(i)
    \/ \E i \in TaskIds : Wake(i)
    \/ \E i \in TaskIds, s \in RenderStatuses : RenderResp(i, s)
    \/ \E i \in TaskIds : RenderTimeout(i)
    \/ BatchReturn
    \/ HttpTick


\* ------------------------------------------------------------------ concurrent saves
\* Requests of the three routes that render and save (fc, latest-fc and one()
\* of latest-fc-all), served concurrently by the one event loop. Each is taken
\* from the point where it awaits fetch_false_color_png, for the AOI and the
\* datetime it renders; its write and its return follow the response without
\* a further await.
MaxOps == 2
StoreRoutes == {"fc", "latest-fc", "latest-fc-all"}
StoreAois == {1, 2}
\* instants 2 and 3 lie on one UTC day; "4+01" is the instant 3 written on the next day
StoreDatetimes == {ShapeAt(2, 0).dt, ShapeAt(4, 1).dt, ShapeAt(4, 0).dt}

IdleOp == [pc |-> "idle", ep |-> "none", aoi |-> 0, dt |-> NoneV, tk |-> NewTask, doneAt |-> 0]
StoreInit == ops = [k \in 1..MaxOps |-> IdleOp]

\* a request for AOI a reaches `png = await fetch_false_color_png(...)`
StoreBegin(k, ep, a, d) ==
    /\ ops[k].pc = "idle"
    /\ ops' = [ops EXCEPT ![k] =
                  [pc |-> "render", ep |-> ep, aoi |-> a, dt |-> d,
                   tk |-> [NewTask EXCEPT !.pc = "render", !.stage = "process", !.dt = d],
                   doneAt |-> 0]]
    /\ UNCHANGED <<aoiVars, selVars, retryVars, clockVars, cacheVars, tokVars, httpVars,
                   callerVars>>

\* the render provider answers with status s: raise_for_status, then save_png
\* and the return
StoreRenderResp(k, s) ==
    LET op == ops[k]
        png == PngFor(op.aoi, op.tk)
        order == Cardinality({j \in DOMAIN ops : ops[j].pc = "done"}) + 1
    IN  /\ op.pc = "render"
        /\ IF Is2xx(s)
           THEN /\ files' = WriteBytes(files, SavedPath(op.aoi, op.tk), png)
                /\ ops' = [ops EXCEPT ![k] =
                              [op EXCEPT !.pc = "done", !.doneAt = order,
                                         !.tk = AfterRender(op.ep, op.aoi, op.tk, png)]]
           ELSE /\ files' = files
                /\ ops' = [ops EXCEPT ![k] =
                              [op EXCEPT !.pc = "done", !.doneAt = order,
                                         !.tk = Raise(op.ep, op.aoi, op.tk, "process",
                                                      HTTPStatusError(s))]]
        /\ UNCHANGED <<endpoint, reqAoi, reqDt, nAois, concurrency, sem, task, results,
                       response, renderLog, overtaken,
                       aoiVars, selVars, retryVars, clockVars, cacheVars, tokVars, callerVars>>

StoreNext ==
    \/ \E k \in DOMAIN ops, ep \in StoreRoutes, a \in StoreAois, d \in StoreDatetimes :
            StoreBegin(k, ep, a, d)
    \/ \E k \in DOMAIN ops, s \in RenderStatuses : StoreRenderResp(k, s)

\* ------------------------------------------------------------------ concurrent callers
\* Coroutines of one event loop calling get_access_token concurrently (the
\* one() tasks of a batch, or several requests). A call suspends only at its
\* POST to the token endpoint; the identity provider answers each request at
\* some moment, and the caller resumes at some later moment.
MaxCallers == 2
MaxCallerTicks == 2
\* the clock moves in steps of 20 s: a token of 90 s is served from the cache
\* 20 s after the call that fetched it and no longer 40 s after it
CallerDeltas == {20}
\* what the identity provider may answer a concurrent caller
CallerResponses ==
    {r \in TokenResponses :
        /\ r.status \in {200, 401}
        /\ r.kind = "ok" => r.expires_in \in {NoneV, [is |-> "num", v |-> 90]}}
IdleCaller ==
    [pc |-> "idle", tnow |-> 0, resp |-> NoneV, serial |-> 0, ok |-> FALSE,
     fromCache |-> FALSE, token |-> 0, ret |-> 0, before |-> EmptyCache, after |-> EmptyCache]
CallersInit ==
    /\ callers = [c \in 1..MaxCallers |-> IdleCaller]
    /\ minted = <<>>

\* get_access_token up to its await: read the clock, answer from the cache or
\* POST to the token endpoint
CallerCall(c) ==
    /\ callers[c].pc = "idle"
    /\ IF CacheFresh(token_cache, now)
       THEN /\ callers' = [callers EXCEPT ![c] =
                    [@ EXCEPT !.pc = "done", !.tnow = now, !.ok = TRUE, !.fromCache = TRUE,
                              !.token = token_cache.access_token, !.ret = now,
                              !.before = token_cache, !.after = token_cache]]
            /\ UNCHANGED tokenRequests
       ELSE /\ callers' = [callers EXCEPT ![c] = [@ EXCEPT !.pc = "posted", !.tnow = now]]
            /\ tokenRequests' = tokenRequests + 1
    /\ UNCHANGED <<token_cache, issued, grant, minted, clockVars, tokVars,
                   aoiVars, selVars, retryVars, httpVars, storeVars>>

\* the identity provider answers caller c's request with r (or the request
\* times out); a token it issues is valid from this moment for its expires_in
IdpAnswer(c, r) ==
    /\ callers[c].pc = "posted"
    /\ IF r.kind = "ok"
       THEN /\ issued' = issued + 1
            /\ minted' = minted @@ ((issued + 1) :> [at |-> now, expires_in |-> r.expires_in])
            /\ callers' = [callers EXCEPT ![c] =
                    [@ EXCEPT !.pc = "answered", !.resp = r, !.serial = issued + 1]]
       ELSE /\ callers' = [callers EXCEPT ![c] = [@ EXCEPT !.pc = "answered", !.resp = r]]
            /\ UNCHANGED <<issued, minted>>
    /\ UNCHANGED <<token_cache, tokenRequests, grant, clockVars, tokVars,
                   aoiVars, selVars, retryVars, httpVars, storeVars>>

\* caller c resumes with the response: raise_for_status, then the two stores
\* and the return
CallerResume(c) ==
    LET me == callers[c]
        payload == PayloadOf(me.resp, me.serial)
    IN  /\ me.pc = "answered"
        /\ IF me.resp.kind = "ok"
           THEN /\ token_cache' = StoreToken(token_cache, me.tnow, payload)
                /\ grant' = GrantOf(me.tnow, payload)
                /\ callers' = [callers EXCEPT ![c] =
                        [@ EXCEPT !.pc = "done", !.ok = TRUE, !.token = token_cache'.access_token,
                                  !.ret = now, !.before = token_cache, !.after = token_cache']]
           ELSE /\ callers' = [callers EXCEPT ![c] =
                        [@ EXCEPT !.pc = "done", !.ok = FALSE, !.ret = now,
                                  !.before = token_cache, !.after = token_cache]]
                /\ UNCHANGED <<token_cache, grant>>
        /\ UNCHANGED <<tokenRequests, issued, minted, clockVars, tokVars,
                       aoiVars, selVars, retryVars, httpVars, storeVars>>

\* time passes between the steps of the callers
CallerTick(d) ==
    /\ ticks < MaxCallerTicks
    /\ ticks' = ticks + 1
    /\ now' = now + d
    /\ UNCHANGED <<cacheVars, tokVars, aoiVars, selVars, retryVars, httpVars,
                   storeVars, callerVars>>

CallersNext ==
    \/ \E c \in DOMAIN callers : CallerCall(c)
    \/ \E c \in DOMAIN callers, r \in CallerResponses : IdpAnswer(c, r)
    \/ \E c \in DOMAIN callers : CallerResume(c)
    \/ \E d \in CallerDeltas : CallerTick(d)
\* ------------------------------------------------------------------ claims
\* C4: sequential calls of get_access_token against a provider that succeeds:
\* a call that finds the cache empty makes exactly one token request; a call
\* that reads the clock less than expires_in - 60 seconds after the call the
\* cached token came from makes no request and returns the cached token; a
\* call at or after that window makes exactly one request and overwrites the
\* cached token and expires_at.
C4_TokenCacheWindow ==
    \A n \in 1..Len(callLog) :
        LET c == callLog[n]
            elapsed == c.start - c.grantBefore.at
            window == c.grantBefore.expires_in - TokenMargin
        IN  c.ok =>
              /\ c.before.access_token = 0 => c.requests = 1
              /\ (c.before.access_token # 0 /\ elapsed < window) =>
                    (c.requests = 0 /\ c.token = c.before.access_token /\ c.after = c.before)
              /\ (c.before.access_token # 0 /\ elapsed >= window) =>
                    /\ c.requests = 1
                    /\ c.token # c.before.access_token
                    /\ c.after.access_token = c.token
              /\ c.requests = 1 =>
                    \E e \in {DefaultExpiresIn, 30, 90} :
                        c.after = [access_token |-> c.token, expires_at |-> c.start + e]

\* C4 witness: a first call on the empty cache, then a call answered from the
\* cache, then a call after the window that refreshed.
C4_Witness ==
    /\ Len(callLog) = 3
    /\ callLog[1].ok /\ callLog[1].before.access_token = 0 /\ callLog[1].requests = 1
    /\ callLog[2].ok /\ callLog[2].requests = 0 /\ callLog[2].start > callLog[1].start
    /\ callLog[3].ok /\ callLog[3].requests = 1 /\ callLog[3].before.access_token # 0

\* ---- helpers of the claims about the HTTP surface
HasError(entry) == "error" \in DOMAIN entry
DoneIds == {i \in TaskIds : task[i].pc = "done"}
InsideCodes == {"token", "catalog", "sleep", "render"}
InsideIds == {i \in TaskIds : task[i].pc \in InsideCodes}
WaitingIds == {i \in TaskIds : task[i].pc = "wait"}
FeaturesOf(body) == IF body.features.is = "list" THEN body.features.v ELSE <<>>
HasDt(f) == f.props = "dict" /\ f.dt.is = "str"
InstantOf(f) == f.dt.wall - f.dt.off
\* the scene a catalog body stands for: the feature of the latest datetime,
\* or, when no feature has a datetime, the first feature
LatestOf(fs) ==
    IF \E k \in 1..Len(fs) : HasDt(fs[k])
    THEN fs[CHOOSE k \in 1..Len(fs) :
                /\ HasDt(fs[k])
                /\ \A j \in 1..Len(fs) : HasDt(fs[j]) => InstantOf(fs[j]) <= InstantOf(fs[k])]
    ELSE fs[1]
\* the catalog answered 2xx and the selected scene has no datetime
MissingDatetime(body) ==
    /\ body # NoBody
    /\ Len(FeaturesOf(body)) > 0
    /\ ~HasDt(LatestOf(FeaturesOf(body)))
ImagePath(a, f) ==
    [output_dir |-> "output", aoi_id |-> a,
     filename |-> [date |-> InstantOf(f) \div DayLen, suffix |-> "_false_color.png"]]
\* the entry of an AOI whose coroutine met no failure, from the catalog body it got
NormalEntry(ep, a, body) ==
    LET fs == FeaturesOf(body)
    IN  IF ep = "latest-scenes"
        THEN IF Len(fs) = 0 THEN [aoi_id |-> a, name |-> a, scene |-> NoneV]
             ELSE [aoi_id |-> a, name |-> a,
                   scene |-> [is |-> "scene",
                              datetime |-> IF LatestOf(fs).props = "dict" THEN LatestOf(fs).dt ELSE NoneV,
                              cloud_cover |-> LatestOf(fs).cloud,
                              scene_id |-> LatestOf(fs).id]]
        ELSE IF Len(fs) = 0
             THEN [aoi_id |-> a, name |-> a, datetime |-> NoneV, file |-> NoneV, url |-> NoneV]
             ELSE [aoi_id |-> a, name |-> a, datetime |-> LatestOf(fs).dt,
                   file |-> ImagePath(a, LatestOf(fs)),
                   url |-> [slash |-> "/", path |-> ImagePath(a, LatestOf(fs))]]
IsEntryOf(entry, a) == "aoi_id" \in DOMAIN entry /\ entry.aoi_id = a
BatchAnswered == IsBatch /\ response # Pending

\* C1 as stated: in both batch endpoints a failed task (an exception, or a
\* selected scene missing its datetime) gives an entry with an error field, the
\* batch response never fails, and every other entry is the normal one.
C1_Original ==
    IsBatch =>
      /\ \A i \in DoneIds :
            LET failing == task[i].fault.type # "none" \/ MissingDatetime(task[i].body)
            IN  /\ failing => HasError(task[i].out)
                /\ ~failing => task[i].out = NormalEntry(endpoint, i, task[i].body)
      /\ response # Pending => response.status = 200

\* C1 amended: in both batch endpoints a task's exception (upstream non-2xx
\* from token, catalog or render, or any other exception) gives that AOI's
\* entry an error field; a selected scene missing its datetime gives an error
\* entry in /latest-fc-all and, in /latest-scenes, the normal entry with a null
\* scene datetime; the batch answers 200 with every coroutine's entry, and the
\* entry of every AOI that did not fail is the normal result for the catalog
\* body that AOI got, whatever the other AOIs did.
C1_Isolation ==
    IsBatch =>
      /\ \A i \in DoneIds :
            LET failing == \/ task[i].fault.type # "none"
                           \/ endpoint = "latest-fc-all" /\ MissingDatetime(task[i].body)
            IN  /\ failing => (HasError(task[i].out) /\ task[i].out.aoi_id = i)
                /\ ~failing => (~HasError(task[i].out)
                                /\ task[i].out = NormalEntry(endpoint, i, task[i].body))
      /\ response # Pending =>
            /\ response.status = 200
            /\ DoneIds = 1..nAois
            /\ \A i \in 1..nAois : response.body.results[i] = task[i].out

\* C1 witness: a batch over three AOIs has answered; one entry is an error
\* from an upstream status, one from another exception, one is a normal scene.
C1_Witness ==
    /\ BatchAnswered /\ nAois = 3
    /\ \E i, j, k \in 1..3 :
          /\ task[i].fault.type = "HTTPStatusError" /\ HasError(response.body.results[i])
          /\ task[j].fault.type = "Exception" /\ HasError(response.body.results[j])
          /\ task[k].fault.type = "none" /\ Len(FeaturesOf(task[k].body)) = 3
          /\ ~HasError(response.body.results[k])

\* C2: a batch over k AOIs answers with count = k and k entries, the i-th
\* carrying the aoi_id of the i-th AOI, whatever order the coroutines ended in.
C2_GatherOrder ==
    IsBatch =>
      /\ Len(results) = nAois
      /\ \A i \in DoneIds : IsEntryOf(results[i], i)
      /\ \A i \in TaskIds \ DoneIds : results[i] = Pending
      /\ response # Pending =>
            /\ response.body.count = nAois
            /\ Len(response.body.results) = nAois
            /\ \A i \in 1..nAois : IsEntryOf(response.body.results[i], i)

\* C2 witness: a batch over three AOIs answered although a coroutine had ended
\* before one of a lower index.
C2_Witness ==
    BatchAnswered /\ nAois = 3 /\ overtaken /\ response.body.count = 3

\* C3: in a batch with concurrency N at most N coroutines are inside the
\* `async with sem` section; the semaphore's value is N less the number inside,
\* so a coroutine that has left has given its slot back, and every coroutine
\* not inside is waiting on the semaphore or has ended.
C3_SemaphoreBound ==
    IsBatch =>
      /\ Cardinality(InsideIds) <= concurrency
      /\ sem = concurrency - Cardinality(InsideIds)
      /\ TaskIds = InsideIds \cup WaitingIds \cup DoneIds
      /\ (WaitingIds # {} /\ Cardinality(InsideIds) < concurrency) => ~SemLocked(sem)

\* C3 witness: concurrency 2, three AOIs: one coroutine has left the section
\* with a caught error and the other two are inside it.
C3_Witness ==
    /\ IsBatch /\ concurrency = 2 /\ nAois = 3 /\ sem = 0
    /\ Cardinality(InsideIds) = 2
    /\ \E i \in DoneIds : HasError(task[i].out)

\* C5: one catalog search POSTs again only after a 502, 503 or 504 and only
\* while fewer than 4 POSTs were made; it never POSTs more than 4 times; a 2xx
\* ends it with the response, any other non-2xx status with a failure after
\* that one response, and a 502/503/504 on the 4th POST is a failure.
C5_RetryPolicy ==
    LET n == Len(retryPosts)
        last == retryPosts[n]
    IN  /\ n <= 4
        /\ \A k \in 1..(n - 1) : retryPosts[k] \in {502, 503, 504}
        /\ n = 0 => retryOut = "running"
        /\ n > 0 =>
              /\ last \in 200..299 => retryOut = "returned"
              /\ (last \notin 200..299 /\ last \notin {502, 503, 504}) => retryOut = "raised"
              /\ (last \in {502, 503, 504} /\ n = 4) => retryOut = "raised"
              /\ (last \in {502, 503, 504} /\ n < 4) => retryOut = "running"

\* C5 witness: three transient answers were retried and the 4th, again
\* transient, was raised.
C5_Witness ==
    retryPosts = <<503, 502, 504, 503>> /\ retryOut = "raised"

\* C6: for a non-empty feature list find_latest_s2_scene returns a feature of
\* the list; when some feature has a datetime, the one returned has a datetime
\* and no feature's datetime is later.
C6_LatestSelected ==
    LET fs == FeaturesOf(selIn)
    IN  (selOut # Pending /\ Len(fs) > 0) =>
          /\ selOut.is = "feature"
          /\ \E k \in 1..Len(fs) : fs[k] = selOut.f
          /\ (\E k \in 1..Len(fs) : HasDt(fs[k])) =>
                /\ HasDt(selOut.f)
                /\ \A k \in 1..Len(fs) : HasDt(fs[k]) => InstantOf(fs[k]) <= InstantOf(selOut.f)

\* C6 witness: three features, the first without a datetime, the latest one
\* last and written with a UTC offset; the last one was returned.
C6_Witness ==
    LET fs == FeaturesOf(selIn)
    IN  /\ Len(fs) = 3 /\ selOut # Pending
        /\ ~HasDt(fs[1]) /\ HasDt(fs[2]) /\ HasDt(fs[3])
        /\ fs[3].dt.off = 1 /\ InstantOf(fs[2]) < InstantOf(fs[3])
        /\ selOut.f = fs[3]

\* the positions of the features that have a datetime and whose instant is the
\* maximum over the list
MaxPositions(fs) ==
    {k \in 1..Len(fs) :
        /\ HasDt(fs[k])
        /\ \A j \in 1..Len(fs) : HasDt(fs[j]) => InstantOf(fs[j]) <= InstantOf(fs[k])}
Tied == selOut # Pending /\ Cardinality(MaxPositions(FeaturesOf(selIn))) > 1

\* C13 as stated: when several features of one response share the maximum
\* datetime, the one that appears last in the list is selected.
C13_LastMaxWins ==
    Tied => selOut.f = FeaturesOf(selIn)[Max(MaxPositions(FeaturesOf(selIn)))]

\* C13 as amended: when several features of one response share the maximum
\* datetime, the one that appears first in the list is selected.
C13_FirstMaxWins ==
    Tied => selOut.f = FeaturesOf(selIn)[Min(MaxPositions(FeaturesOf(selIn)))]

\* C13 witness: the first and the third of three features share the maximum
\* instant, written differently, and the first was returned.
C13_Witness ==
    LET fs == FeaturesOf(selIn)
    IN  /\ Len(fs) = 3 /\ selOut # Pending
        /\ MaxPositions(fs) = {1, 3}
        /\ fs[1].dt # fs[3].dt
        /\ selOut.f = fs[1]

\* C7: a 2xx catalog answer with no features (an empty or absent list) is the
\* "no scene" outcome and never an error: find_latest_s2_scene returns None,
\* latest-scene answers {aoi_id, scene: null}, latest-fc answers null
\* datetime/file/url, a batch entry holds a null scene (or null
\* datetime/file/url) and no error, and no render request and no file write is
\* made for that AOI.
C7_NoScene ==
    \A i \in TaskIds :
        (task[i].body # NoBody /\ Len(FeaturesOf(task[i].body)) = 0) =>
          /\ SelectLatest(task[i].body) = NoneV
          /\ task[i].pc = "done" /\ task[i].fault = NoFault
          /\ i \notin renderLog
          /\ \A p \in DOMAIN files : p.aoi_id # i
          /\ CASE endpoint = "latest-scene" ->
                    response = [status |-> 200, body |-> [aoi_id |-> i, scene |-> NoneV]]
               [] endpoint = "latest-fc" ->
                    response = [status |-> 200,
                                body |-> [aoi_id |-> i, datetime |-> NoneV, file |-> NoneV, url |-> NoneV]]
               [] endpoint = "latest-scenes" ->
                    results[i] = [aoi_id |-> i, name |-> i, scene |-> NoneV]
               [] endpoint = "latest-fc-all" ->
                    results[i] = [aoi_id |-> i, name |-> i,
                                  datetime |-> NoneV, file |-> NoneV, url |-> NoneV]
               [] OTHER -> FALSE

\* C7 witness: /latest-fc-all has answered; one AOI's catalog answer had an
\* empty feature list, another's had none at all, a third's image was saved.
C7_Witness ==
    /\ endpoint = "latest-fc-all" /\ response # Pending
    /\ \E i, j, k \in TaskIds :
          /\ task[i].body = [features |-> [is |-> "list", v |-> <<>>]]
          /\ task[j].body = [features |-> [is |-> "absent"]]
          /\ k \in renderLog /\ \E p \in DOMAIN files : p.aoi_id = k

\* C8 as stated: in every single-AOI endpoint an upstream non-2xx answer gives
\* an error response with the upstream status code, whose detail carries that
\* status and the truncated upstream body and names the stage that failed.
C8_UpstreamSurfaced ==
    endpoint \in SingleEndpoints =>
      \A i \in DoneIds :
          task[i].fault.type = "HTTPStatusError" =>
            /\ response.status = task[i].fault.status
            /\ "upstream_status" \in DOMAIN response.detail
            /\ response.detail.upstream_status = task[i].fault.status
            /\ response.detail.upstream_body.of = task[i].fault.status
            /\ response.detail.upstream_body.len <= 1200
            /\ response.detail.where = task[i].fault.where

\* C9 as stated: construction fails whenever the geometry's type is not
\* Polygon, with or without a bbox, and whenever neither bbox nor geometry is
\* given.
Constructed == aoiOut.ok \/ aoiOut.error # "pending"
C9_NonPolygonRejected ==
    Constructed =>
      /\ (aoiIn.geometry.is = "dict" /\ aoiIn.geometry.type # "Polygon") => ~aoiOut.ok
      /\ (aoiIn.bbox.is = "None" /\ aoiIn.geometry.is = "None") => ~aoiOut.ok

\* C10 as stated: every accepted AOI holds a bbox of exactly 4 numbers with
\* minLon <= maxLon and minLat <= maxLat.
C10_BboxOrdered ==
    aoiOut.ok =>
      /\ Len(aoiOut.bbox) = 4
      /\ aoiOut.bbox[1] <= aoiOut.bbox[3]
      /\ aoiOut.bbox[2] <= aoiOut.bbox[4]


\* ---- helpers of the claim about the resolved bbox
OnlyPolygon ==
    /\ aoiIn.bbox.is = "None"
    /\ aoiIn.geometry.is = "dict"
    /\ aoiIn.geometry.type = "Polygon"
    /\ Len(aoiIn.geometry.coordinates) > 0
    /\ Len(aoiIn.geometry.coordinates[1]) > 0
IsEnvelope(b, ring) ==
    /\ Len(b) = 4
    /\ \A i \in 1..Len(ring) :
          /\ b[1] <= ring[i][1] /\ ring[i][1] <= b[3]
          /\ b[2] <= ring[i][2] /\ ring[i][2] <= b[4]
    /\ \E i \in 1..Len(ring) : b[1] = ring[i][1]
    /\ \E i \in 1..Len(ring) : b[2] = ring[i][2]
    /\ \E i \in 1..Len(ring) : b[3] = ring[i][1]
    /\ \E i \in 1..Len(ring) : b[4] = ring[i][2]
\* C11: an AOI given only a Polygon geometry is accepted (its exterior ring
\* having a point) with the bbox [min lon, min lat, max lon, max lat] of the
\* exterior ring's coordinates, the first ring only; an AOI accepted with both
\* a bbox and a geometry holds the supplied bbox unchanged.
C11_BboxResolved ==
    Constructed =>
      /\ OnlyPolygon =>
            aoiOut.ok /\ IsEnvelope(aoiOut.bbox, aoiIn.geometry.coordinates[1])
      /\ (aoiOut.ok /\ aoiIn.bbox.is = "list" /\ aoiIn.geometry.is # "None") =>
            aoiOut.bbox = aoiIn.bbox.v
\* a polygon whose second ring lies outside the exterior ring's envelope was
\* resolved to the exterior ring's envelope
C11_Witness ==
    /\ aoiOut.ok
    /\ OnlyPolygon
    /\ Len(aoiIn.geometry.coordinates) = 2
    /\ aoiIn.geometry.coordinates[1] = <<<<0, 1>>, <<1, 0>>>>
    /\ aoiOut.bbox = <<0, 0, 1, 1>>

\* ---- helpers of the claim about the image store
Saved == {k \in DOMAIN ops : ops[k].pc = "done" /\ ops[k].tk.fault = NoFault}
UtcInstant(d) == d.wall - d.off
KeyOf(k) == <<ops[k].aoi, UtcInstant(ops[k].dt) \div DayLen>>
PathOfKey(key) ==
    [output_dir |-> "output", aoi_id |-> key[1],
     filename |-> [date |-> key[2], suffix |-> "_false_color.png"]]
BytesOf(k) == [bbox_of |-> ops[k].aoi, around |-> UtcInstant(ops[k].dt)]
LastSaved(key) ==
    CHOOSE k \in Saved :
        KeyOf(k) = key /\ \A j \in Saved : KeyOf(j) = key => ops[j].doneAt <= ops[k].doneAt
ReturnedBody(k) == IF ops[k].ep = "latest-fc-all" THEN ops[k].tk.out ELSE ops[k].tk.out.body

\* C12: after any interleaving of render-and-save operations the image store
\* holds exactly one file for each (aoi_id, UTC date) some operation saved, at
\* {output_dir}/{aoi_id}/{date}_false_color.png, holding the bytes of the
\* save for that key that completed last, and no other file; every saving
\* operation returned that path as `file` and "/" + path as `url`.
C12_OneFilePerKey ==
    /\ DOMAIN files = {PathOfKey(KeyOf(k)) : k \in Saved}
    /\ \A k \in Saved :
          /\ files[PathOfKey(KeyOf(k))] = BytesOf(LastSaved(KeyOf(k)))
          /\ ReturnedBody(k).file = PathOfKey(KeyOf(k))
          /\ ReturnedBody(k).url = [slash |-> "/", path |-> PathOfKey(KeyOf(k))]
\* C12 witness: two operations saved different images for one key, written
\* on different calendar days, the second one first; the file holds the
\* first one's image.
C12_Witness ==
    /\ Saved = {1, 2}
    /\ KeyOf(1) = KeyOf(2)
    /\ BytesOf(1) # BytesOf(2)
    /\ ops[1].dt.wall \div DayLen # ops[2].dt.wall \div DayLen
    /\ ops[2].doneAt < ops[1].doneAt
    /\ files[PathOfKey(KeyOf(1))] = BytesOf(1)

\* ---- helpers of the claim about concurrent callers of get_access_token
DoneCallers == {c \in DOMAIN callers : callers[c].pc = "done"}
StatedLifetime(tok) == minted[tok].expires_in.is = "num"
RealExpiry(tok) == minted[tok].at + minted[tok].expires_in.v
LifetimeUsed(tok) ==
    IF StatedLifetime(tok) THEN minted[tok].expires_in.v ELSE DefaultExpiresIn

\* C14: under every interleaving of concurrent get_access_token calls the
\* cache is empty or holds the access_token of one successful response
\* together with the expires_at computed from that same response by the call
\* that received it, no later than the token's issue time plus its
\* expires_in; a failed token request leaves the cache unchanged; a token
\* answered from the cache has more than 60 seconds of real validity left.
C14_CacheConsistent ==
    /\ \/ token_cache = EmptyCache
       \/ LET tok == token_cache.access_token
          IN  /\ tok \in DOMAIN minted
              /\ \E c \in DoneCallers :
                    /\ callers[c].ok /\ ~callers[c].fromCache
                    /\ callers[c].serial = tok
                    /\ token_cache.expires_at = callers[c].tnow + LifetimeUsed(tok)
              /\ StatedLifetime(tok) => token_cache.expires_at <= RealExpiry(tok)
    /\ \A c \in DoneCallers :
          /\ ~callers[c].ok => callers[c].after = callers[c].before
          /\ (callers[c].fromCache /\ StatedLifetime(callers[c].token)) =>
                RealExpiry(callers[c].token) - callers[c].ret > TokenMargin
\* C14 witness: two calls were in flight together; the one that called
\* first got its token issued after the clock had moved, resumed last and
\* overwrote the other's token with an earlier expires_at.
C14_Witness ==
    /\ DoneCallers = {1, 2}
    /\ callers[1].ok /\ ~callers[1].fromCache
    /\ callers[2].ok /\ ~callers[2].fromCache
    /\ callers[1].tnow < callers[2].tnow
    /\ callers[1].before.access_token = callers[2].token
    /\ minted[callers[1].serial].at > callers[1].tnow
    /\ StatedLifetime(callers[1].token)
    /\ token_cache.access_token = callers[1].token
    /\ token_cache.expires_at < callers[1].before.expires_at
\* ------------------------------------------------------------------ specifications
HttpIdle ==
    /\ endpoint = "none"
    /\ reqAoi = 0
    /\ reqDt = NoneV
    /\ nAois = 0
    /\ concurrency = 0
    /\ sem = 0
    /\ task = <<>>
    /\ results = <<>>
    /\ response = Pending
    /\ files = [p \in {} |-> 0]
    /\ renderLog = {}
    /\ overtaken = FALSE
StoreIdle == ops = <<>>
CallersIdle == callers = <<>> /\ minted = <<>>

InitAOI == AoiInit /\ SelIdle /\ ClockInit /\ CacheInit /\ TokInit /\ HttpIdle /\ RetryIdle
    /\ StoreIdle /\ CallersIdle
SpecAOI == InitAOI /\ [][Construct]_vars

InitSelect == SelInit /\ AoiIdle /\ ClockInit /\ CacheInit /\ TokInit /\ HttpIdle /\ RetryIdle
    /\ StoreIdle /\ CallersIdle
SpecSelect == InitSelect /\ [][Select]_vars

InitToken == AoiIdle /\ SelIdle /\ ClockInit /\ CacheInit /\ TokInit /\ HttpIdle /\ RetryIdle
    /\ StoreIdle /\ CallersIdle
SpecToken == InitToken /\ [][TokNext]_vars

InitRetry == RetryInit /\ AoiIdle /\ SelIdle /\ ClockInit /\ CacheInit /\ TokInit /\ HttpIdle
    /\ StoreIdle /\ CallersIdle
NextRetry == \E s \in RetryStatuses : RetryPost(s)
SpecRetry == InitRetry /\ [][NextRetry]_vars

Init == HttpInit /\ RetryIdle /\ AoiIdle /\ SelIdle /\ ClockInit /\ CacheInit /\ TokInit
    /\ StoreIdle /\ CallersIdle
Spec == Init /\ [][HttpNext]_vars

InitStore == StoreInit /\ HttpIdle /\ RetryIdle /\ AoiIdle /\ SelIdle /\ ClockInit /\ CacheInit
    /\ TokInit /\ CallersIdle
SpecStore == InitStore /\ [][StoreNext]_vars

InitCallers == CallersInit /\ ClockInit /\ CacheInit /\ TokInit /\ HttpIdle /\ RetryIdle /\ AoiIdle
    /\ SelIdle /\ StoreIdle
SpecCallers == InitCallers /\ [][CallersNext]_vars
====
